---------------------------- MODULE Spec2Model ----------------------------
(***************************************************************************)
(* Coordination fabric of a randcast node (crates/randcast-node/src/node): *)
(* listeners, event queue, dynamic task scheduler, signing handler and the *)
(* signature-result cache with its threshold / committed state machine.    *)
(*                                                                         *)
(* The module holds several specifications over one set of variables, one  *)
(* per subsystem; a specification leaves the other subsystems' variables   *)
(* unchanged:                                                              *)
(*   SpecAgg        signature cache, aggregation listener, fulfillment     *)
(*   SpecListeners  NewRandomnessTask and group-relay-confirmation loops   *)
(*   SpecEq         event queue: subscribe / publish / notify              *)
(*   SpecSched      dynamic scheduler: add_task and the wait_task loop     *)
(*   SpecSign       randomness signing handler and its committer clients   *)
(*   SpecCtx        context: add_adapter_chain and deploy                  *)
(*   SpecNotify     ReadyToHandleRandomnessTaskSubscriber::notify          *)
(*   SpecClient     committer client: the request it builds                *)
(***************************************************************************)
EXTENDS Naturals, Integers, Sequences, FiniteSets

\* ------------------------------------------------------------------ bounds

\* Number of members of the BLS group (GroupInfo.size).
GroupSize == 3
\* Minimum number of partials that aggregate (GroupInfo.threshold).
Threshold == 2
\* Task indices 1..MaxIdx may be handed out by the chain.
MaxIdx == 2
\* ReadyToFulfillRandomnessTask events waiting for their fulfillment handler.
MaxPending == 2
\* fulfill_randomness attempts counted per task index.
MaxCalls == 3

Members == 1 .. GroupSize
Idx == 1 .. MaxIdx
\* The local node's id_address (a member of the group).
Me == 1

\* NewRandomnessTask events kept in the model's record of published events.
MaxEvents == 2

\* Chain ids 0..MaxChain; 0 is the id of the main chain.
MaxChain == 1
\* Subscriber objects 1..MaxSubs that may register with the event queue.
MaxSubs == 2
\* add_task / add_task_with_timer calls made on the dynamic scheduler.
MaxTasks == 3

\* Distinct adapter-chain objects 1..MaxAdapters that may be handed to
\* add_adapter_chain (two objects may carry the same chain id).
MaxAdapters == 2

\* usize values hi * 2^32 + lo with hi in 0..MaxHigh and lo in 0..MaxLow.
MaxHigh == 1
MaxLow == 2
\* commit_partial_signature calls kept in the record of requests sent.
MaxRequests == 2

Chains == 0 .. MaxChain
Subscribers == 1 .. MaxSubs

\* NodeResult<bool> as returned by the cache traits.
OkTrue == "Ok(true)"
OkFalse == "Ok(false)"
Err == "Err"

VARIABLES
    \* group cache (GroupInfo): whether a group exists, and its committers
    group,
    \* signature result cache: task index -> entry
    sigCache,
    \* RandomnessSignatureAggregationListener: outcome of its last iteration
    aggLast,
    \* ReadyToFulfillRandomnessTask events delivered, not yet handled
    rtfQueue,
    \* fulfill_randomness attempts / confirmed submissions per task index
    fulfillCalls,
    fulfilled,
    \* what the fulfillment handler did with the last entry it took
    fulfillLast

cacheVars == <<group, sigCache>>

aggVars == <<aggLast, rtfQueue, fulfillCalls, fulfilled, fulfillLast>>

VARIABLES
    \* randomness task cache: the indices of the tasks it holds
    tasksCache,
    \* read guards held on the task cache's RwLock
    tasksLockReaders,
    \* MockNewRandomnessTaskListener: "running" | "blocked"
    nrtPc,
    \* its last iteration: replies received and what it did
    nrtLast,
    \* the task indices of the NewRandomnessTask events published, oldest first
    nrtEvents,
    \* ReadyToHandleGroupRelayConfirmationTaskListener: "running" | "exited"
    grcPc,
    \* its last iteration
    grcLast

lisVars == <<tasksCache, tasksLockReaders, nrtPc, nrtLast, nrtEvents, grcPc, grcLast>>

VARIABLES
    \* EventQueue: topic -> subscribers in subscription order
    subs,
    \* the events published, oldest first, each with the notify calls made
    eqLog,
    \* subscriber -> the kind and chain_id it was built with ("none": not built)
    subscribers

eqVars == <<subs, eqLog, subscribers>>

VARIABLES
    \* SimpleDynamicTaskScheduler::dynamic_tasks
    dynamic_tasks,
    \* tasks added so far (task ids are 1, 2, ... in the order of add_task)
    added,
    \* task id -> "none" | "running" | "done" | "aborted"
    taskState,
    \* ContextHandle::wait_task: "check" | "pop" | "await" | "sleep"
    waitPc,
    \* the entry wait_task popped and is awaiting
    waitCur,
    \* ids of the entries popped, in the order they were taken
    taken,
    \* who holds the write guard of the scheduler's RwLock: "free" | "wait_task"
    tsLock

schedVars == <<dynamic_tasks, added, taskState, waitPc, waitCur, taken, tsLock>>

VARIABLES
    \* MockRandomnessHandler::handle: position in the handler
    hPc,
    \* the tasks of the event not yet finished, the current one first
    hTasks,
    \* the committer clients prepared, and those still to call for this task
    hCommitters,
    hTodo,
    \* commit_partial_signature calls made to each committer for the current task
    hCalls,
    \* what handle() returned: "none" | "Ok" | "Err"
    hResult,
    \* the handler's last add_partial_signature call: "none" | "new" (the
    \* member had no partial in the entry) | "dup" (it had one) | "Err"
    hAddLast,
    \* what is_committer(id_address) returned for the current task ("none"
    \* before the test)
    hIsCommitter,
    \* whether, in this run, the retry of a commit_partial_signature gave up
    hGaveUp

signVars ==
    <<hPc, hTasks, hCommitters, hTodo, hCalls, hResult, hAddLast, hIsCommitter,
      hGaveUp>>

VARIABLES
    \* GeneralContext::adapter_chains: chain id -> adapter-chain object (0: none)
    adapter_chains,
    \* the last add_adapter_chain call: its argument and what it returned
    addLast,
    \* chain id -> the first object add_adapter_chain was called with (0: none)
    firstAdded,
    \* deploy(): "constructed" | "init" | "server" | "deployed"
    deployPc,
    \* the chain whose init_components is running (NoChain: none)
    initCur,
    \* the chains whose init_components has returned
    initDone,
    \* the chains whose listeners run on the fixed scheduler
    listenersStarted,
    \* the chains whose subscribers are registered with the event queue
    subscribersRegistered,
    \* whether the committer RPC server task was started
    serverStarted,
    \* the last event a listener published, and what it found registered
    lastPublish

ctxVars ==
    <<adapter_chains, addLast, firstAdded, deployPc, initCur, initDone,
      listenersStarted, subscribersRegistered, serverStarted, lastPublish>>

deployVars ==
    <<deployPc, initCur, initDone, listenersStarted, subscribersRegistered,
      serverStarted, lastPublish>>

VARIABLES
    \* ReadyToHandleRandomnessTaskSubscriber::notify: scheduler task id -> the
    \* MockRandomnessHandler the running task owns (its chain_id and tasks)
    spawned,
    \* scheduler task id -> what handle() returned in the task ("none": not yet)
    handlerResult,
    \* the last notify call: the event's tasks, the task id added, the result
    notifyLast

notifyVars == <<spawned, handlerResult, notifyLast>>

VARIABLES
    \* MockCommitterClient::commit_partial_signature: the calls made, oldest
    \* first, each with its arguments, the request built and the result
    requests

clientVars == <<requests>>

vars ==
    <<cacheVars, aggVars, lisVars, eqVars, schedVars, signVars, ctxVars, notifyVars,
      clientVars>>

othersAgg ==
    <<lisVars, eqVars, schedVars, signVars, ctxVars, notifyVars, clientVars>>

othersLis ==
    <<cacheVars, aggVars, eqVars, schedVars, signVars, ctxVars, notifyVars, clientVars>>

othersEq ==
    <<cacheVars, aggVars, lisVars, schedVars, signVars, ctxVars, notifyVars, clientVars>>

othersSched ==
    <<cacheVars, aggVars, lisVars, eqVars, signVars, ctxVars, notifyVars, clientVars>>

othersSign ==
    <<aggVars, lisVars, eqVars, schedVars, ctxVars, notifyVars, clientVars>>

othersCtx ==
    <<cacheVars, aggVars, lisVars, eqVars, schedVars, signVars, notifyVars, clientVars>>

othersNotify ==
    <<cacheVars, aggVars, lisVars, eqVars, signVars, ctxVars, clientVars>>

othersClient ==
    <<cacheVars, aggVars, lisVars, eqVars, schedVars, signVars, ctxVars, notifyVars>>

\* ------------------------------------------------------------ group cache

\* No group yet; a group in which the local node is a committer beside one
\* peer; a group whose committers are peers only.
GroupStates ==
    { [exists |-> FALSE, members |-> {}, committers |-> {}],
      [exists |-> TRUE, members |-> Members, committers |-> {Me, Me + 1}],
      [exists |-> TRUE, members |-> Members, committers |-> Members \ {Me}] }

\* The group after a regrouping in which the last member has left.
Regrouped ==
    [exists |-> TRUE, members |-> Members \ {GroupSize}, committers |-> {Me, Me + 1}]

\* GroupInfoFetcher::is_committer: an error while no group exists.
is_committer(g, id) ==
    IF ~g.exists THEN Err
    ELSE IF id \in g.committers THEN OkTrue ELSE OkFalse

\* -------------------------------------------------- signature result cache

NoEntry == [present |-> FALSE, threshold |-> 0, partials |-> {}, committed |-> FALSE]

NewEntry == [present |-> TRUE, threshold |-> Threshold, partials |-> {}, committed |-> FALSE]

\* What an event carries for one entry: a clone of the entry, with its index.
Snapshot(cache, i) ==
    [index |-> i, threshold |-> cache[i].threshold,
     partials |-> cache[i].partials, committed |-> cache[i].committed]

\* An entry is ready when |partials| >= threshold and committed == false.
is_ready(e) ==
    e.present /\ Cardinality(e.partials) >= e.threshold /\ ~e.committed

get_ready_to_commit_signatures_loose(cache) ==
    { Snapshot(cache, i) : i \in { j \in Idx : cache[j].present
                                     /\ Cardinality(cache[j].partials) + 1 >= cache[j].threshold } }

get_ready_to_commit_signatures(cache) ==
    { Snapshot(cache, i) : i \in { j \in Idx : is_ready(cache[j]) } }

\* CommitterService server side, steps 1-5: a rejected request (sender not a
\* member, no DKG-complete group, local node not committer, partial_verify
\* failing) mutates nothing; an accepted one locates or creates the entry and
\* inserts under the sender's address, a duplicate being a no-op.
insert_partial(cache, i, m) ==
    LET e == IF cache[i].present THEN cache[i] ELSE NewEntry
    IN  [cache EXCEPT ![i] = [e EXCEPT !.partials = e.partials \cup {m}]]

\* An add_partial_signature that refuses a member that already submitted.
add_partial_signature_once(cache, i, m) ==
    IF ~cache[i].present \/ m \in cache[i].partials
    THEN [cache |-> cache, result |-> Err]
    ELSE [cache |-> insert_partial(cache, i, m), result |-> "Ok"]

\* SignatureResultCacheUpdater::add_partial_signature(index, address, partial):
\* an error when there is no entry under index, else the partial is recorded
\* under the member's address (a duplicate is a no-op) and the call succeeds.
add_partial_signature(cache, i, m) ==
    IF ~cache[i].present
    THEN [cache |-> cache, result |-> Err]
    ELSE [cache |-> insert_partial(cache, i, m), result |-> "Ok"]

\* A server that does not test the sender's membership.
CommitPartialSignatureServerAnySender(m, i) ==
    /\ is_committer(group, Me) = OkTrue
    /\ sigCache' = insert_partial(sigCache, i, m)
    /\ UNCHANGED <<group, aggVars, othersAgg>>

CommitPartialSignatureServer(m, i) ==
    /\ m \in group.members
    /\ is_committer(group, Me) = OkTrue
    /\ sigCache' = insert_partial(sigCache, i, m)
    /\ UNCHANGED <<group, aggVars, othersAgg>>

\* The grouping subsystem replaces the group view.
GroupUpdate ==
    /\ group' \in GroupStates \ {group}
    /\ UNCHANGED <<sigCache, aggVars, othersAgg>>

\* The grouping subsystem installs the group of a new epoch, with fewer
\* members; the signature cache is not touched.
Regroup ==
    /\ group # Regrouped
    /\ group' = Regrouped
    /\ UNCHANGED <<sigCache, aggVars, othersAgg>>

\* --------------------------------- RandomnessSignatureAggregationListener

\* One iteration of the loop body, given the reply of is_committer and the
\* signature cache: whether the cache was accessed and the events published.
AggIterationAnyReply(isc, cache) ==
    IF isc # Err
    THEN LET ready_signatures == get_ready_to_commit_signatures(cache)
         IN  [accessed |-> TRUE,
              events |-> IF ready_signatures # {}
                         THEN << [tasks |-> ready_signatures] >> ELSE << >>]
    ELSE [accessed |-> FALSE, events |-> << >>]

AggIterationSkipSingle(isc, cache) ==
    IF isc = OkTrue
    THEN LET ready_signatures == get_ready_to_commit_signatures(cache)
         IN  [accessed |-> TRUE,
              events |-> IF Cardinality(ready_signatures) > 1
                         THEN << [tasks |-> ready_signatures] >> ELSE << >>]
    ELSE [accessed |-> FALSE, events |-> << >>]

AggIteration(isc, cache) ==
    IF isc = OkTrue
    THEN LET ready_signatures == get_ready_to_commit_signatures(cache)
         IN  [accessed |-> TRUE,
              events |-> IF ready_signatures # {}
                         THEN << [tasks |-> ready_signatures] >> ELSE << >>]
    ELSE [accessed |-> FALSE, events |-> << >>]

\* loop { iteration; sleep(1000) }: the iteration is one step (no await in it).
AggListenerTick ==
    LET isc == is_committer(group, Me)
        it == AggIteration(isc, sigCache)
    IN  /\ Len(rtfQueue) + Len(it.events) <= MaxPending
        /\ aggLast' = [turn |-> 1 - aggLast.turn, isc |-> isc, accessed |-> it.accessed]
        /\ rtfQueue' = rtfQueue \o it.events
        /\ UNCHANGED <<cacheVars, fulfillCalls, fulfilled, fulfillLast, othersAgg>>

\* ------------------------------------------- randomness fulfillment handler

\* Attempts of fulfill_randomness the handler makes for one entry (retry 3x).
FulfillAttempts == 3

\* The check of the check-then-set: is the entry already committed?
already_committed_unchecked(cache, t) == FALSE

already_committed(cache, t) == cache[t.index].committed

\* What may happen to an entry that is not committed: the aggregate fails
\* verification (no attempt), the k-th attempt is confirmed, or all
\* FulfillAttempts attempts fail.
FulfillOutcomes ==
    { [verified |-> FALSE, k |-> 0, ok |-> FALSE],
      [verified |-> TRUE, k |-> FulfillAttempts, ok |-> FALSE] }
    \cup { [verified |-> TRUE, k |-> n, ok |-> TRUE] : n \in 1 .. FulfillAttempts }

\* The handler takes one entry t of the oldest pending event.  Under the cache
\* lock: an already-committed entry is a no-op; otherwise aggregate and verify,
\* then submit with up to FulfillAttempts attempts; committed is set together
\* with the confirmed submission.
FulfillEntry(t, o) ==
    /\ rtfQueue # << >>
    /\ t \in Head(rtfQueue).tasks
    /\ LET rest == Head(rtfQueue).tasks \ {t}
       IN  rtfQueue' = IF rest = {} THEN Tail(rtfQueue)
                       ELSE << [tasks |-> rest] >> \o Tail(rtfQueue)
    /\ IF already_committed(sigCache, t)
       THEN /\ fulfillLast' = "skipped"
            /\ UNCHANGED <<sigCache, fulfillCalls, fulfilled>>
       ELSE IF ~o.verified
       THEN /\ fulfillLast' = "verify_failed"
            /\ UNCHANGED <<sigCache, fulfillCalls, fulfilled>>
       ELSE /\ fulfillCalls[t.index] + o.k <= MaxCalls
            /\ fulfillCalls' = [fulfillCalls EXCEPT ![t.index] = @ + o.k]
            /\ fulfilled' = [fulfilled EXCEPT ![t.index] = @ + (IF o.ok THEN 1 ELSE 0)]
            /\ sigCache' = IF o.ok THEN [sigCache EXCEPT ![t.index].committed = TRUE]
                           ELSE sigCache
            /\ fulfillLast' = IF o.ok THEN "submitted" ELSE "failed"
    /\ UNCHANGED <<group, aggLast, othersAgg>>

InitAggIdle ==
    /\ aggLast = [turn |-> 0, isc |-> Err, accessed |-> FALSE]
    /\ rtfQueue = << >>
    /\ fulfillCalls = [i \in Idx |-> 0]
    /\ fulfilled = [i \in Idx |-> 0]
    /\ fulfillLast = "none"

NextAgg ==
    \/ \E m \in Members, i \in Idx : CommitPartialSignatureServer(m, i)
    \/ GroupUpdate
    \/ AggListenerTick
    \/ \E t \in UNION { e.tasks : e \in { rtfQueue[n] : n \in 1 .. Len(rtfQueue) } },
          o \in FulfillOutcomes : FulfillEntry(t, o)

\* ------------------------------------------- MockNewRandomnessTaskListener

\* BLSTasksFetcher::contains, a NodeResult<bool>.
contains(cache, index, fails) ==
    IF fails THEN Err ELSE IF index \in cache THEN OkTrue ELSE OkFalse

\* parking_lot RwLock::write(): waits until no read guard and no write guard
\* is held; it is not reentrant, so a guard of the caller's own counts.
RwWriteAcquirable(readers) == readers = 0

\* The listener without the membership test: add and publish every reply.
NrtHandleReplyNoDedup(index, cache, containsFails, addOk) ==
    IF addOk
    THEN [cache |-> cache \cup {index}, readers |-> 0,
          events |-> << index >>, result |-> "Ok"]
    ELSE [cache |-> cache, readers |-> 0, events |-> << >>, result |-> "Err"]

\* `if let Ok(false) = cache.read().contains(index) { cache.write().add(task)?;
\* publish }` for the task of an Ok reply.  The read guard is a temporary of
\* the if-let scrutinee: it is dropped at the end of the whole if-let, so it
\* is still held inside the block, where write() is called.
NrtHandleReply(index, cache, containsFails, addOk) ==
    LET held == 1
    IN  IF contains(cache, index, containsFails) # OkFalse
        THEN [cache |-> cache, readers |-> 0, events |-> << >>, result |-> "Ok"]
        ELSE IF ~RwWriteAcquirable(held)
        THEN [cache |-> cache, readers |-> held, events |-> << >>, result |-> "blocked"]
        ELSE IF addOk
        THEN [cache |-> cache \cup {index}, readers |-> 0,
              events |-> << index >>, result |-> "Ok"]
        ELSE [cache |-> cache, readers |-> 0, events |-> << >>, result |-> "Err"]

\* The replies of emit_signature_task: an error, or a task with its index.
NoReply == [ok |-> FALSE, index |-> 0]

TaskReplies == {NoReply} \cup { [ok |-> TRUE, index |-> i] : i \in Idx }

\* One run of the retried closure, given the reply of emit_signature_task.  A
\* closure that returns Err is run again after the 2 s retry interval
\* (FixedInterval without a limit), one that returns Ok is followed by the 2 s
\* sleep: either way the loop goes on.  A listener waiting for the write lock
\* stays where it is.
NrtIteration(reply, containsFails, addOk) ==
    /\ nrtPc = "running"
    /\ LET r == IF ~reply.ok
                THEN [cache |-> tasksCache, readers |-> 0, events |-> << >>,
                      result |-> "Ok"]
                ELSE NrtHandleReply(reply.index, tasksCache, containsFails, addOk)
       IN  /\ Len(nrtEvents) + Len(r.events) <= MaxEvents
           /\ tasksCache' = r.cache
           /\ tasksLockReaders' = r.readers
           /\ nrtEvents' = nrtEvents \o r.events
           /\ nrtPc' = IF r.result = "blocked" THEN "blocked" ELSE "running"
           /\ nrtLast' = [turn |-> 1 - nrtLast.turn, prev |-> nrtLast.reply,
                          reply |-> reply,
                          contains |-> IF ~reply.ok THEN Err
                                       ELSE contains(tasksCache, reply.index, containsFails),
                          result |-> r.result]
    /\ UNCHANGED <<grcPc, grcLast, othersLis>>

\* ------------------------ ReadyToHandleGroupRelayConfirmationTaskListener

\* One iteration of the loop, given the replies of get_state, get_index and
\* check_and_get_available_tasks (Err, "Ok(empty)" or "Ok(tasks)"): what
\* the iteration did.  The two `?` return the error from start().
GrcIteration(state, index, tasks) ==
    IF state # OkTrue THEN "not_ready"
    ELSE IF index = Err THEN "returned_err"
    ELSE IF tasks = Err THEN "returned_err"
    ELSE IF tasks = "Ok(empty)" THEN "no_tasks" ELSE "published"

GrcListenerTick(state, index, tasks) ==
    /\ grcPc = "running"
    /\ LET did == GrcIteration(state, index, tasks)
       IN  /\ grcLast' = [turn |-> 1 - grcLast.turn, state |-> state,
                          index |-> index, tasks |-> tasks, did |-> did]
           /\ grcPc' = IF did = "returned_err" THEN "exited" ELSE "running"
    /\ UNCHANGED <<tasksCache, tasksLockReaders, nrtPc, nrtLast, nrtEvents, othersLis>>

NoIteration ==
    [turn |-> 0, prev |-> NoReply, reply |-> NoReply, contains |-> Err, result |-> "Ok"]

NoGrcIteration == [turn |-> 0, state |-> Err, index |-> Err, tasks |-> Err, did |-> "not_ready"]

\* The task cache is handed to the listener's constructor: it may hold tasks.
InitListenersWith(cache) ==
    /\ tasksCache = cache
    /\ tasksLockReaders = 0
    /\ nrtPc = "running"
    /\ nrtLast = NoIteration
    /\ nrtEvents = << >>
    /\ grcPc = "running"
    /\ grcLast = NoGrcIteration

NextListeners ==
    \/ \E reply \in TaskReplies, containsFails \in BOOLEAN, addOk \in BOOLEAN :
          NrtIteration(reply, containsFails, addOk)
    \/ \E state \in {OkTrue, OkFalse, Err}, index \in {"Ok", Err},
          tasks \in {Err, "Ok(empty)", "Ok(tasks)"} :
          GrcListenerTick(state, index, tasks)

\* ---- properties of the aggregation subsystem (checked under SpecAgg)

\* The events appended to the queue by the step, if any.
NewRtfEvents == { rtfQueue'[n] : n \in Len(rtfQueue) + 1 .. Len(rtfQueue') }

AggTicked == aggLast'.turn # aggLast.turn

C4_OnlyCommitterEmits ==
    [][ /\ NewRtfEvents # {} => is_committer(group, Me) = OkTrue
        /\ (AggTicked /\ is_committer(group, Me) # OkTrue)
              => (rtfQueue' = rtfQueue /\ ~aggLast'.accessed) ]_vars

\* An iteration on a non-committer passed over a ready entry.
C4_Witness ==
    /\ aggLast.turn = 1
    /\ aggLast.isc = OkFalse
    /\ ~aggLast.accessed
    /\ rtfQueue = << >>
    /\ \E i \in Idx : is_ready(sigCache[i])

\* C5: every entry carried by a published ReadyToFulfillRandomnessTask event
\* is the cache entry as read in that iteration, which then had at least
\* threshold partials and committed == false; entries with fewer partials or
\* already committed are in no event.
C5_PublishedEntriesWereReady ==
    /\ [](\A n \in 1 .. Len(rtfQueue) : \A t \in rtfQueue[n].tasks :
              Cardinality(t.partials) >= t.threshold /\ ~t.committed)
    /\ [][\A e \in NewRtfEvents : \A t \in e.tasks :
              is_ready(sigCache[t.index]) /\ t = Snapshot(sigCache, t.index)]_vars

\* An event was published while another entry held threshold - 1 partials.
C5_Witness ==
    /\ aggLast.accessed
    /\ Len(rtfQueue) = 1
    /\ \E i \in Idx :
          /\ sigCache[i].present
          /\ Cardinality(sigCache[i].partials) = sigCache[i].threshold - 1
          /\ \A t \in rtfQueue[1].tasks : t.index # i

\* C6: on a committer, an entry that holds exactly threshold partials and is
\* not committed is contained in the event the next listener iteration
\* publishes.
C6_ExactThresholdPublishedNextTick ==
    [][ (AggTicked /\ is_committer(group, Me) = OkTrue) =>
          \A i \in Idx :
            ( /\ sigCache[i].present
              /\ Cardinality(sigCache[i].partials) = sigCache[i].threshold
              /\ ~sigCache[i].committed )
            => /\ Len(rtfQueue') = Len(rtfQueue) + 1
               /\ Snapshot(sigCache, i) \in rtfQueue'[Len(rtfQueue')].tasks ]_vars

\* The last iteration published an entry that holds exactly threshold partials.
C6_Witness ==
    /\ aggLast.isc = OkTrue
    /\ rtfQueue # << >>
    /\ \E t \in rtfQueue[Len(rtfQueue)].tasks :
          /\ Cardinality(t.partials) = Threshold
          /\ t = Snapshot(sigCache, t.index)

\* ------------------------------------------------------------ event queue

Tags == {"NewBlock", "ReadyToHandleRandomnessTask"}

Topics == Tags \X Chains

Events == [tag : Tags, chain_id : Chains]

\* A NewBlock topic that forgets the chain.
NewBlock_topic_any_chain(e) == <<"NewBlock", 0>>

\* impl Event for NewBlock: Topic::NewBlock(self.chain_id).
NewBlock_topic(e) == <<"NewBlock", e.chain_id>>

\* Event::topic of the event kinds of the model.
topic(e) ==
    IF e.tag = "NewBlock" THEN NewBlock_topic(e) ELSE <<e.tag, e.chain_id>>

Registered(s) == \E t \in Topics : \E n \in 1 .. Len(subs[t]) : subs[t][n] = s

NoSubscriber == [kind |-> "none", chain_id |-> 0]

\* A subscribe that registers under the block topic of the chain.
subscribe_topic_of_block(kind, chain_id) == <<"NewBlock", chain_id>>

\* The topic subscribe(self) registers under: Topic::<kind>(self.chain_id),
\* for ReadyToHandleRandomnessTaskSubscriber
\* Topic::ReadyToHandleRandomnessTask(chain_id).
subscribe_topic(kind, chain_id) == <<kind, chain_id>>

\* Subscriber::subscribe(self) of a subscriber of kind tag built for chain_id:
\* eq.write().subscribe(Topic::<tag>(chain_id), Box::new(self)).  It consumes
\* the subscriber, so a subscriber registers once; EventQueue::subscribe appends.
subscribe(s, tag, chain_id) ==
    /\ ~Registered(s)
    /\ subscribers' = [subscribers EXCEPT ![s] = [kind |-> tag, chain_id |-> chain_id]]
    /\ subs' = [subs EXCEPT ![subscribe_topic(tag, chain_id)] = Append(@, s)]
    /\ UNCHANGED <<eqLog, othersEq>>

\* EventQueue::publish(event), under the queue's read lock: one notify call,
\* in subscription order, to every subscriber registered under event.topic().
publish(e) ==
    /\ Len(eqLog) < MaxEvents
    /\ eqLog' = Append(eqLog, [event |-> e, notified |-> subs[topic(e)]])
    /\ UNCHANGED <<subs, subscribers, othersEq>>

InitEq ==
    /\ subs = [t \in Topics |-> << >>]
    /\ eqLog = << >>
    /\ subscribers = [s \in Subscribers |-> NoSubscriber]

NextEq ==
    \/ \E s \in Subscribers, tag \in Tags, c \in Chains : subscribe(s, tag, c)
    \/ \E e \in Events : publish(e)

\* ------------------------------------- dynamic scheduler and wait_task

TaskIds == 1 .. MaxTasks

NoTask == [run |-> "none", dog |-> "none"]

NoCur == [id |-> 0, monitor |-> FALSE]

\* add_task(f) / add_task_with_timer(.., f): spawn f (and, with a timer, its
\* watchdog) and push the completion channel and the optional monitor handle.
add_task(with_timer) ==
    /\ tsLock = "free"
    /\ added < MaxTasks
    /\ added' = added + 1
    /\ dynamic_tasks' = Append(dynamic_tasks, [id |-> added + 1, monitor |-> with_timer])
    /\ taskState' = [taskState EXCEPT ![added + 1] =
                        [run |-> "running", dog |-> IF with_timer THEN "armed" ELSE "none"]]
    /\ UNCHANGED <<waitPc, waitCur, taken, tsLock, othersSched>>

\* The spawned future completes: its completion signal fires.
TaskFinish(t) ==
    /\ taskState[t].run = "running"
    /\ taskState' = [taskState EXCEPT ![t].run = "done"]
    /\ UNCHANGED <<dynamic_tasks, added, waitPc, waitCur, taken, tsLock, othersSched>>

\* The watchdog reaches its deadline and aborts the task, whose completion
\* channel then resolves with an error.
WatchdogFire(t) ==
    /\ taskState[t].dog = "armed"
    /\ taskState' = [taskState EXCEPT ![t] =
                        [run |-> IF @.run = "running" THEN "aborted" ELSE @.run,
                         dog |-> "fired"]]
    /\ UNCHANGED <<dynamic_tasks, added, waitPc, waitCur, taken, tsLock, othersSched>>

\* dynamic_tasks.pop(): Vec::pop removes and returns the last element.
pop(q) == [entry |-> q[Len(q)], rest |-> SubSeq(q, 1, Len(q) - 1)]

\* while !self.ts.read().dynamic_tasks.is_empty(): the read guard is a
\* temporary of the condition and is gone when the body is entered.
WaitCheck ==
    /\ waitPc = "check"
    /\ tsLock = "free"
    /\ waitPc' = IF dynamic_tasks # << >> THEN "pop" ELSE "sleep"
    /\ UNCHANGED <<dynamic_tasks, added, taskState, waitCur, taken, tsLock, othersSched>>

\* self.ts.write() of the pop statement: the write guard is acquired.
WaitPopLock ==
    /\ waitPc = "pop"
    /\ tsLock = "free"
    /\ tsLock' = "wait_task"
    /\ UNCHANGED <<dynamic_tasks, added, taskState, waitPc, waitCur, taken,
                   othersSched>>

\* A pop whose write guard is bound to a variable that lives through the await.
WaitPopKeepsGuard ==
    /\ waitPc = "pop"
    /\ tsLock = "wait_task"
    /\ dynamic_tasks # << >>
    /\ waitPc' = "await"
    /\ waitCur' = pop(dynamic_tasks).entry
    /\ dynamic_tasks' = pop(dynamic_tasks).rest
    /\ taken' = Append(taken, pop(dynamic_tasks).entry.id)
    /\ UNCHANGED <<added, taskState, tsLock, othersSched>>

\* let (task_recv, task_monitor) = self.ts.write().dynamic_tasks.pop().unwrap();
\* the guard is a temporary of the statement and is dropped at its end, before
\* the await of the next statement.
WaitPop ==
    /\ waitPc = "pop"
    /\ tsLock = "wait_task"
    /\ tsLock' = "free"
    /\ IF dynamic_tasks = << >>
       THEN /\ waitPc' = "panicked"
            /\ UNCHANGED <<dynamic_tasks, waitCur, taken>>
       ELSE /\ waitPc' = "await"
            /\ waitCur' = pop(dynamic_tasks).entry
            /\ dynamic_tasks' = pop(dynamic_tasks).rest
            /\ taken' = Append(taken, pop(dynamic_tasks).entry.id)
    /\ UNCHANGED <<added, taskState, othersSched>>

\* A wait loop that propagates the error of a completion channel.
WaitAwaitReturnsOnError ==
    /\ waitPc = "await"
    /\ taskState[waitCur.id].run \in {"done", "aborted"}
    /\ taskState' = taskState
    /\ waitCur' = NoCur
    /\ waitPc' = IF taskState[waitCur.id].run = "aborted" THEN "returned" ELSE "check"
    /\ UNCHANGED <<dynamic_tasks, added, taken, tsLock, othersSched>>

\* let _ = task_recv.await; if let Some(monitor) = task_monitor { monitor.abort() }
WaitAwait ==
    /\ waitPc = "await"
    /\ taskState[waitCur.id].run \in {"done", "aborted"}
    /\ taskState' = IF waitCur.monitor /\ taskState[waitCur.id].dog = "armed"
                    THEN [taskState EXCEPT ![waitCur.id].dog = "aborted"]
                    ELSE taskState
    /\ waitCur' = NoCur
    /\ waitPc' = "check"
    /\ UNCHANGED <<dynamic_tasks, added, taken, tsLock, othersSched>>

\* tokio::time::sleep(1000 ms), then the outer loop starts over.
WaitSleep ==
    /\ waitPc = "sleep"
    /\ waitPc' = "check"
    /\ UNCHANGED <<dynamic_tasks, added, taskState, waitCur, taken, tsLock, othersSched>>

InitSched ==
    /\ dynamic_tasks = << >>
    /\ added = 0
    /\ taskState = [t \in TaskIds |-> NoTask]
    /\ waitPc = "check"
    /\ waitCur = NoCur
    /\ taken = << >>
    /\ tsLock = "free"

NextSched ==
    \/ \E with_timer \in BOOLEAN : add_task(with_timer)
    \/ \E t \in TaskIds : TaskFinish(t)
    \/ \E t \in TaskIds : WatchdogFire(t)
    \/ WaitCheck
    \/ WaitPopLock
    \/ WaitPop
    \/ WaitAwait
    \/ WaitSleep

\* ---------------------------------------------- MockRandomnessHandler

\* FixedInterval::from_millis(2000).take(3): the delays the strategy yields.
RetryTake == 3

\* tokio_retry RetryIf (the condition always true): after a failed attempt the
\* next delay is taken from the strategy and the action is run again; it gives
\* up when the strategy has no delay left, that is after delays + 1 failures.
RetryGivesUp(failed, delays) == failed > delays

\* The elements of a set of members as a sequence, in ascending order.
RECURSIVE SeqOf(_)
SeqOf(S) ==
    IF S = {} THEN << >>
    ELSE LET m == CHOOSE x \in S : \A y \in S : x <= y
         IN  << m >> \o SeqOf(S \ {m})

\* CommitterClientHandler::prepare_committer_clients: a client per committer
\* of the group other than the local node.
prepare_committer_clients(g) == SeqOf(g.committers \ {Me})

\* The tasks an event may carry: distinct indices, in any order.
TaskLists ==
    { q \in UNION { [1 .. n -> Idx] : n \in 1 .. MaxIdx } :
        \A a, b \in 1 .. Len(q) : a # b => q[a] # q[b] }

NoCalls == [m \in Members |-> 0]

\* handle() returns Err through a `?`: the rest of the event is dropped.
HandleReturnsErr ==
    /\ hPc' = "done"
    /\ hResult' = "Err"

\* let committers = self.prepare_committer_clients()?
HandleStart(tasks) ==
    /\ hPc = "idle"
    /\ IF ~group.exists
       THEN /\ HandleReturnsErr
            /\ UNCHANGED <<hTasks, hCommitters>>
       ELSE /\ hPc' = "sign"
            /\ hTasks' = tasks
            /\ hCommitters' = prepare_committer_clients(group)
            /\ UNCHANGED hResult
    /\ UNCHANGED <<hTodo, hCalls, hAddLast, hIsCommitter, hGaveUp, cacheVars, othersSign>>

\* A handler that records its partial whether or not it is committer.
HandleSignAlwaysRecords(signOk) ==
    /\ hPc = "sign"
    /\ hCalls' = NoCalls
    /\ IF ~group.exists \/ ~signOk
       THEN /\ HandleReturnsErr
            /\ hIsCommitter' = "none"
            /\ UNCHANGED hTodo
       ELSE /\ hPc' = "contains"
            /\ hIsCommitter' = is_committer(group, Me)
            /\ UNCHANGED <<hTodo, hResult>>
    /\ UNCHANGED <<hTasks, hCommitters, hAddLast, hGaveUp, cacheVars, othersSign>>

\* Top of `for task in self.tasks`: partial_sign(get_secret_share()?, ..)?,
\* get_threshold()?, get_index()?, is_committer(..)?.
HandleSign(signOk) ==
    /\ hPc = "sign"
    /\ hCalls' = NoCalls
    /\ IF ~group.exists \/ ~signOk
       THEN /\ HandleReturnsErr
            /\ hIsCommitter' = "none"
            /\ UNCHANGED hTodo
       ELSE IF is_committer(group, Me) = OkTrue
       THEN /\ hPc' = "contains"
            /\ hIsCommitter' = OkTrue
            /\ UNCHANGED <<hTodo, hResult>>
       ELSE /\ hPc' = "send"
            /\ hIsCommitter' = OkFalse
            /\ hTodo' = hCommitters
            /\ UNCHANGED hResult
    /\ UNCHANGED <<hTasks, hCommitters, hAddLast, hGaveUp, cacheVars, othersSign>>

\* if !self.randomness_signature_cache.read().contains(task.index)
HandleContains ==
    /\ hPc = "contains"
    /\ hPc' = IF sigCache[Head(hTasks)].present THEN "add_partial" ELSE "add"
    /\ UNCHANGED <<hTasks, hCommitters, hTodo, hCalls, hResult, hAddLast, hIsCommitter, hGaveUp, cacheVars,
                   othersSign>>

\* self.randomness_signature_cache.write().add(group_index, index, message,
\* threshold)?: a new entry without partials under task.index.
HandleAdd(addOk) ==
    /\ hPc = "add"
    /\ IF addOk
       THEN /\ sigCache' = [sigCache EXCEPT ![Head(hTasks)] = NewEntry]
            /\ hPc' = "add_partial"
            /\ UNCHANGED hResult
       ELSE /\ HandleReturnsErr
            /\ UNCHANGED sigCache
    /\ UNCHANGED <<hTasks, hCommitters, hTodo, hCalls, hAddLast, hIsCommitter, hGaveUp, group, othersSign>>

\* self.randomness_signature_cache.write().add_partial_signature(index,
\* id_address, partial_signature)?
HandleAddPartial ==
    /\ hPc = "add_partial"
    /\ LET r == add_partial_signature(sigCache, Head(hTasks), Me)
       IN  /\ sigCache' = r.cache
           /\ hAddLast' = IF r.result = Err THEN Err
                          ELSE IF Me \in sigCache[Head(hTasks)].partials THEN "dup"
                          ELSE "new"
           /\ IF r.result = Err
              THEN /\ HandleReturnsErr
                   /\ UNCHANGED hTodo
              ELSE /\ hPc' = "send"
                   /\ hTodo' = hCommitters
                   /\ UNCHANGED hResult
    /\ UNCHANGED <<hTasks, hCommitters, hCalls, hIsCommitter, hGaveUp, group, othersSign>>

\* A handler that returns the error of a delivery that gave up.
HandleSendFailsOnGiveUp(ok) ==
    /\ hPc = "send"
    /\ hTodo # << >>
    /\ LET c == Head(hTodo)
           n == hCalls[c] + 1
       IN  /\ hCalls' = [hCalls EXCEPT ![c] = n]
           /\ hGaveUp' = (hGaveUp \/ (~ok /\ RetryGivesUp(n, RetryTake)))
           /\ IF ~ok /\ RetryGivesUp(n, RetryTake)
              THEN /\ HandleReturnsErr
                   /\ UNCHANGED hTodo
              ELSE /\ hTodo' = IF ok THEN Tail(hTodo) ELSE hTodo
                   /\ UNCHANGED <<hPc, hResult>>
    /\ UNCHANGED <<hTasks, hCommitters, hAddLast, hIsCommitter, cacheVars, othersSign>>

\* One attempt of commit_partial_signature to the committer at the head of
\* hTodo, inside RetryIf::spawn.  After a success, or when the retry gives up
\* (the error is logged), the loop goes on to the next committer.
HandleSend(ok) ==
    /\ hPc = "send"
    /\ hTodo # << >>
    /\ LET c == Head(hTodo)
           n == hCalls[c] + 1
       IN  /\ hCalls' = [hCalls EXCEPT ![c] = n]
           /\ hTodo' = IF ok \/ RetryGivesUp(n, RetryTake) THEN Tail(hTodo) ELSE hTodo
           /\ hGaveUp' = (hGaveUp \/ (~ok /\ RetryGivesUp(n, RetryTake)))
    /\ UNCHANGED <<hPc, hTasks, hCommitters, hResult, hAddLast, hIsCommitter,
                   cacheVars, othersSign>>

\* End of `for committer in committers.iter()`: the next task, or Ok(()).
HandleNextTask ==
    /\ hPc = "send"
    /\ hTodo = << >>
    /\ hTasks' = Tail(hTasks)
    /\ IF Tail(hTasks) = << >>
       THEN hPc' = "done" /\ hResult' = "Ok"
       ELSE hPc' = "sign" /\ UNCHANGED hResult
    /\ UNCHANGED <<hCommitters, hTodo, hCalls, hAddLast, hIsCommitter, hGaveUp, cacheVars, othersSign>>

\* A later notify spawns a new handler once this one has returned.
HandleAgain ==
    /\ hPc = "done"
    /\ hPc' = "idle"
    /\ hTasks' = << >>
    /\ hCommitters' = << >>
    /\ hTodo' = << >>
    /\ hCalls' = NoCalls
    /\ hAddLast' = "none"
    /\ hIsCommitter' = "none"
    /\ hGaveUp' = FALSE
    /\ UNCHANGED <<hResult, cacheVars, othersSign>>

InitSignIdle ==
    /\ hPc = "idle"
    /\ hTasks = << >>
    /\ hCommitters = << >>
    /\ hTodo = << >>
    /\ hCalls = NoCalls
    /\ hResult = "none"
    /\ hAddLast = "none"
    /\ hIsCommitter = "none"
    /\ hGaveUp = FALSE

NextSign ==
    \/ \E tasks \in TaskLists : HandleStart(tasks)
    \/ \E signOk \in BOOLEAN : HandleSign(signOk)
    \/ HandleContains
    \/ \E addOk \in BOOLEAN : HandleAdd(addOk)
    \/ HandleAddPartial
    \/ \E ok \in BOOLEAN : HandleSend(ok)
    \/ HandleNextTask
    \/ HandleAgain
    \/ \E m \in Members \ {Me}, i \in Idx : CommitPartialSignatureServer(m, i)
    \/ GroupUpdate
    \/ Regroup

\* --------------------------------------------------------- GeneralContext

\* main_chain.id().
MainChainId == 0

\* The ids adapter chains may carry: adapter_chain.id() is any chain id, the
\* main chain's included (the main chain itself is not in the map).
AdapterIds == Chains

\* The chain objects a context owns: its main chain, and the adapter chain
\* held under key c of adapter_chains.
MainChain == [main |-> TRUE, id |-> MainChainId]

AdapterChainOf(c) == [main |-> FALSE, id |-> c]

NoChain == [main |-> FALSE, id |-> -1]

ChainObjects == {MainChain} \cup { AdapterChainOf(c) : c \in AdapterIds }

\* The objects handed to add_adapter_chain: id() and the object's identity.
AdapterChains == [id : AdapterIds, obj : 1 .. MaxAdapters]

\* An add_adapter_chain that inserts without the contains_key test.
add_adapter_chain_overwrite(chains, adapter_chain) ==
    [adapter_chains |-> [chains EXCEPT ![adapter_chain.id] = adapter_chain.obj],
     result |-> "Ok"]

\* GeneralContext::add_adapter_chain: Err(RepeatedChainId) when the map has
\* the key, else insert and Ok(()).
add_adapter_chain(chains, adapter_chain) ==
    IF chains[adapter_chain.id] # 0
    THEN [adapter_chains |-> chains, result |-> "RepeatedChainId"]
    ELSE [adapter_chains |-> [chains EXCEPT ![adapter_chain.id] = adapter_chain.obj],
          result |-> "Ok"]

NoAdd == [id |-> 0, obj |-> 0, result |-> "none"]

\* A call of add_adapter_chain on the context under construction.
AddAdapterChain(adapter_chain) ==
    /\ deployPc = "constructed"
    /\ LET r == add_adapter_chain(adapter_chains, adapter_chain)
       IN  /\ adapter_chains' = r.adapter_chains
           /\ addLast' = [id |-> adapter_chain.id, obj |-> adapter_chain.obj,
                          result |-> r.result]
    /\ firstAdded' = IF firstAdded[adapter_chain.id] = 0
                     THEN [firstAdded EXCEPT ![adapter_chain.id] = adapter_chain.obj]
                     ELSE firstAdded
    /\ UNCHANGED <<deployVars, othersCtx>>

\* The chains deploy() initialises: the main chain and adapter_chains.values().
DeployChains(chains) ==
    {MainChain} \cup { AdapterChainOf(c) : c \in { k \in AdapterIds : chains[k] # 0 } }

\* A deploy that does not wait for the adapter chains.
to_init_main_only(done, chains) == {MainChain} \ done

\* The chains whose init_components call is still ahead in deploy(): the main
\* chain first, then the adapter chains (in the map's iteration order).
to_init(done, chains) ==
    IF MainChain \notin done THEN {MainChain} ELSE DeployChains(chains) \ done

NoPublish ==
    [chain |-> NoChain, afterInit |-> FALSE, delivered |-> FALSE,
     allRegistered |-> FALSE, receivers |-> {}]

\* deploy(self): self.get_main_chain().init_components(&self) is entered.
DeployBegin ==
    /\ deployPc = "constructed"
    /\ deployPc' = "init"
    /\ initCur' = MainChain
    /\ UNCHANGED <<adapter_chains, addLast, firstAdded, initDone, listenersStarted,
                   subscribersRegistered, serverStarted, lastPublish, othersCtx>>

\* init_components(ctx) of chain c starts the chain's listeners on the fixed
\* scheduler (add_task launches them on the runtime).
InitComponentsListeners(c) ==
    /\ deployPc = "init"
    /\ initCur = c
    /\ c \notin listenersStarted
    /\ listenersStarted' = listenersStarted \cup {c}
    /\ UNCHANGED <<adapter_chains, addLast, firstAdded, deployPc, initCur, initDone,
                   subscribersRegistered, serverStarted, lastPublish, othersCtx>>

\* init_components(ctx) of chain c registers the chain's subscribers.
InitComponentsSubscribers(c) ==
    /\ deployPc = "init"
    /\ initCur = c
    /\ c \notin subscribersRegistered
    /\ subscribersRegistered' = subscribersRegistered \cup {c}
    /\ UNCHANGED <<adapter_chains, addLast, firstAdded, deployPc, initCur, initDone,
                   listenersStarted, serverStarted, lastPublish, othersCtx>>

\* init_components of the current chain returns; deploy() goes on to the next
\* chain of `for adapter_chain in self.adapter_chains.values()`, or leaves
\* the loop.
InitComponentsReturn ==
    /\ deployPc = "init"
    /\ initCur \in listenersStarted \cap subscribersRegistered
    /\ initDone' = initDone \cup {initCur}
    /\ LET ahead == to_init(initDone \cup {initCur}, adapter_chains)
       IN  IF ahead = {}
           THEN deployPc' = "server" /\ initCur' = NoChain
           ELSE deployPc' = "init" /\ initCur' \in ahead
    /\ UNCHANGED <<adapter_chains, addLast, firstAdded, listenersStarted,
                   subscribersRegistered, serverStarted, lastPublish, othersCtx>>

\* f_ts.write().start_committer_server(rpc_endpoint, context.clone()), then
\* the ContextHandle is returned.
StartCommitterServer ==
    /\ deployPc = "server"
    /\ serverStarted' = TRUE
    /\ deployPc' = "deployed"
    /\ UNCHANGED <<adapter_chains, addLast, firstAdded, initCur, initDone,
                   listenersStarted, subscribersRegistered, lastPublish, othersCtx>>

\* A running listener of chain c publishes an event; its topic carries c.id,
\* and the event goes to the subscribers registered under that chain id.
ListenerPublish(c) ==
    /\ c \in listenersStarted
    /\ lastPublish' = [chain |-> c,
                       afterInit |-> c \in initDone,
                       delivered |-> c \in subscribersRegistered,
                       allRegistered |->
                           DeployChains(adapter_chains) \subseteq subscribersRegistered,
                       receivers |-> { r \in subscribersRegistered : r.id = c.id }]
    /\ UNCHANGED <<adapter_chains, addLast, firstAdded, deployPc, initCur, initDone,
                   listenersStarted, subscribersRegistered, serverStarted, othersCtx>>

InitCtx ==
    /\ adapter_chains = [c \in AdapterIds |-> 0]
    /\ addLast = NoAdd
    /\ firstAdded = [c \in AdapterIds |-> 0]
    /\ deployPc = "constructed"
    /\ initCur = NoChain
    /\ initDone = {}
    /\ listenersStarted = {}
    /\ subscribersRegistered = {}
    /\ serverStarted = FALSE
    /\ lastPublish = NoPublish

NextCtx ==
    \/ \E adapter_chain \in AdapterChains : AddAdapterChain(adapter_chain)
    \/ DeployBegin
    \/ \E c \in ChainObjects : InitComponentsListeners(c)
    \/ \E c \in ChainObjects : InitComponentsSubscribers(c)
    \/ InitComponentsReturn
    \/ StartCommitterServer
    \/ \E c \in ChainObjects : ListenerPublish(c)

\* ----------------------------- ReadyToHandleRandomnessTaskSubscriber

\* The chain_id of the subscriber whose notify is modelled (the main chain's).
SubscriberChainId == 0

NoHandler == [chain_id |-> 0, tasks |-> << >>]

NoNotify == [tasks |-> << >>, id |-> 0, result |-> "none"]

\* A notify that hands the handler the first task of the event only.
handler_for_first_task(chain_id, tasks) ==
    [chain_id |-> chain_id, tasks |-> << Head(tasks) >>]

\* The MockRandomnessHandler notify builds in the spawned task: the
\* subscriber's chain_id and the tasks moved out of the event.
handler_for(chain_id, tasks) == [chain_id |-> chain_id, tasks |-> tasks]

\* notify(topic, payload) of the subscriber of chain chain_id, called by
\* publish with a ReadyToHandleRandomnessTask event carrying tasks: one
\* add_task (no timer) whose future runs the handler, then Ok(()).
Notify(chain_id, tasks) ==
    /\ tsLock = "free"
    /\ added < MaxTasks
    /\ added' = added + 1
    /\ dynamic_tasks' = Append(dynamic_tasks, [id |-> added + 1, monitor |-> FALSE])
    /\ taskState' = [taskState EXCEPT ![added + 1] = [run |-> "running", dog |-> "none"]]
    /\ spawned' = [spawned EXCEPT ![added + 1] = handler_for(chain_id, tasks)]
    /\ notifyLast' = [tasks |-> tasks, id |-> added + 1, result |-> "Ok"]
    /\ UNCHANGED <<waitPc, waitCur, taken, tsLock, handlerResult, othersNotify>>

\* The spawned future `if let Err(e) = handler.handle().await { error!(..) }`
\* ends: handle() consumed the handler and returned res, an error is logged,
\* the future completes.
HandlerFinish(t, res) ==
    /\ spawned[t] # NoHandler
    /\ taskState[t].run = "running"
    /\ taskState' = [taskState EXCEPT ![t].run = "done"]
    /\ handlerResult' = [handlerResult EXCEPT ![t] = res]
    /\ spawned' = [spawned EXCEPT ![t] = NoHandler]
    /\ UNCHANGED <<dynamic_tasks, added, waitPc, waitCur, taken, tsLock, notifyLast,
                   othersNotify>>

InitNotify ==
    /\ spawned = [t \in TaskIds |-> NoHandler]
    /\ handlerResult = [t \in TaskIds |-> "none"]
    /\ notifyLast = NoNotify

NextNotify ==
    \/ \E tasks \in TaskLists : Notify(SubscriberChainId, tasks)
    \/ \E t \in TaskIds, res \in {"Ok", Err} : HandlerFinish(t, res)

\* ---------------------------------------------------- MockCommitterClient

\* A usize (64 bits) as its two 32-bit halves: the value hi * 2^32 + lo.
Usizes == [hi : 0 .. MaxHigh, lo : 0 .. MaxLow]

\* `x as u32` of a usize: the value modulo 2^32, that is the low half.
as_u32(x) == x.lo

\* A u32 read as a usize again (zero-extended).
u32_as_usize(v) == [hi |-> 0, lo |-> v]

\* The CommitPartialSignatureRequest commit_partial_signature builds:
\* chain_id: chain_id as u32, signature_index: signature_index as u32.
CommitPartialSignatureRequest(chain_id, signature_index) ==
    [chain_id |-> as_u32(chain_id), signature_index |-> as_u32(signature_index)]

\* MockCommitterClient::commit_partial_signature(chain_id, .., signature_index,
\* ..): build the request, connect, send it; res is what the call returns
\* (the server's result, or the error of the connection or of the call).
CommitPartialSignature(chain_id, signature_index, res) ==
    /\ Len(requests) < MaxRequests
    /\ requests' = Append(requests,
                          [chain_id |-> chain_id,
                           signature_index |-> signature_index,
                           request |-> CommitPartialSignatureRequest(chain_id,
                                                                     signature_index),
                           result |-> res])
    /\ UNCHANGED othersClient

InitClient == requests = << >>

NextClient ==
    \E chain_id \in Usizes, signature_index \in Usizes, res \in {OkTrue, OkFalse, Err} :
        CommitPartialSignature(chain_id, signature_index, res)

\* ------------------------------------------------------- specifications

InitCaches(g) ==
    /\ group = g
    /\ sigCache = [i \in Idx |-> NoEntry]

InitAgg ==
    /\ \E g \in GroupStates : InitCaches(g)
    /\ InitAggIdle
    /\ InitListenersWith({})
    /\ InitEq
    /\ InitSched
    /\ InitSignIdle
    /\ InitCtx
    /\ InitNotify
    /\ InitClient

SpecAgg == InitAgg /\ [][NextAgg]_vars

InitListeners ==
    /\ InitCaches([exists |-> FALSE, members |-> {}, committers |-> {}])
    /\ InitAggIdle
    /\ \E cache \in SUBSET Idx : InitListenersWith(cache)
    /\ InitEq
    /\ InitSched
    /\ InitSignIdle
    /\ InitCtx
    /\ InitNotify
    /\ InitClient

SpecListeners == InitListeners /\ [][NextListeners]_vars

InitIdle ==
    /\ InitCaches([exists |-> FALSE, members |-> {}, committers |-> {}])
    /\ InitAggIdle
    /\ InitListenersWith({})
    /\ InitEq
    /\ InitSched
    /\ InitSignIdle
    /\ InitCtx
    /\ InitNotify
    /\ InitClient

SpecEq == InitIdle /\ [][NextEq]_vars

SpecSched == InitIdle /\ [][NextSched]_vars

InitSign ==
    /\ \E g \in GroupStates : InitCaches(g)
    /\ InitAggIdle
    /\ InitListenersWith({})
    /\ InitEq
    /\ InitSched
    /\ InitSignIdle
    /\ InitCtx
    /\ InitNotify
    /\ InitClient

SpecSign == InitSign /\ [][NextSign]_vars

SpecCtx == InitIdle /\ [][NextCtx]_vars

SpecNotify == InitIdle /\ [][NextNotify]_vars

SpecClient == InitIdle /\ [][NextClient]_vars

\* ---- properties of the listeners (checked under SpecListeners)

NrtTicked == nrtLast'.turn # nrtLast.turn

\* C2: at most one NewRandomnessTask event is published per task index, and an
\* iteration whose reply is a task the cache already holds publishes nothing.
C2_NeverReEmitsKnownTask ==
    /\ [](\A i \in Idx :
            Cardinality({ n \in 1 .. Len(nrtEvents) : nrtEvents[n] = i }) <= 1)
    /\ [][(NrtTicked /\ nrtLast'.reply.ok /\ nrtLast'.reply.index \in tasksCache)
            => nrtEvents' = nrtEvents]_vars

\* The same known task was returned in two consecutive iterations; nothing
\* was published and the listener goes on.
C2_Witness ==
    /\ nrtLast.reply.ok
    /\ nrtLast.reply.index \in tasksCache
    /\ nrtLast.prev = nrtLast.reply
    /\ nrtLast.contains = OkTrue
    /\ nrtEvents = << >>
    /\ nrtPc = "running"

\* C3: an iteration whose reply is a task the cache does not hold completes:
\* the listener does not stay blocked on the cache lock, and unless add fails
\* the task is in the cache and one NewRandomnessTask event was published.
C3_UnknownTaskIterationCompletes ==
    (nrtLast.reply.ok /\ nrtLast.contains = OkFalse)
        => /\ nrtPc = "running"
           /\ tasksLockReaders = 0
           /\ nrtLast.result = "Ok" =>
                 /\ nrtLast.reply.index \in tasksCache
                 /\ nrtEvents # << >>
                 /\ nrtEvents[Len(nrtEvents)] = nrtLast.reply.index

\* C10: no listener loop exits (in particular not after an iteration in which
\* a chain-client or cache call returned an error).
C10_ListenersNeverExit == grcPc # "exited" /\ nrtPc # "exited"

\* ---- properties of the event queue (checked under SpecEq)

\* The number of notify calls subscriber s got for the logged publication l.
NotifyCalls(l, s) == Cardinality({ n \in 1 .. Len(l.notified) : l.notified[n] = s })

\* The subscribers registered under (tag, chain_id) in the current state.
RegisteredUnder(tag, chain_id) ==
    { subs[<<tag, chain_id>>][n] : n \in 1 .. Len(subs[<<tag, chain_id>>]) }

\* C7: a published event is notified exactly once to every subscriber that is
\* registered, at publish time, under the event's tag and chain_id, and to no
\* other subscriber; publishing to a topic without subscribers notifies nobody
\* and leaves the subscriptions as they were.
C7_PublishNotifiesTopicSubscribersOnce ==
    [][ Len(eqLog') > Len(eqLog) =>
          LET l == eqLog'[Len(eqLog')]
              regs == RegisteredUnder(l.event.tag, l.event.chain_id)
          IN  /\ Len(eqLog') = Len(eqLog) + 1
              /\ subs' = subs
              /\ \A s \in Subscribers :
                    NotifyCalls(l, s) = IF s \in regs THEN 1 ELSE 0
              /\ regs = {} => l.notified = << >> ]_vars

\* An event was delivered to the one subscriber of its topic while another
\* subscriber held the same tag for another chain, and an event published to a
\* topic without subscribers reached nobody.
C7_Witness ==
    /\ Len(eqLog) = 2
    /\ Len(eqLog[1].notified) = 1
    /\ eqLog[2].notified = << >>
    /\ \E c \in Chains :
          /\ c # eqLog[1].event.chain_id
          /\ subs[<<eqLog[1].event.tag, c>>] # << >>

\* C21: a ReadyToHandleRandomnessTaskSubscriber is registered under the topic
\* ReadyToHandleRandomnessTask(chain_id) of its own chain_id and under no other
\* topic, so every event delivered to its notify is a
\* ReadyToHandleRandomnessTask event of the subscriber's chain, and the
\* chain_id of the handler notify builds is the chain_id of the event.
C21_RegisteredOnOwnTopicOnly ==
    /\ \A t \in Topics : \A n \in 1 .. Len(subs[t]) :
          subscribers[subs[t][n]].kind = "ReadyToHandleRandomnessTask"
             => t = <<"ReadyToHandleRandomnessTask", subscribers[subs[t][n]].chain_id>>
    /\ \A n \in 1 .. Len(eqLog) : \A k \in 1 .. Len(eqLog[n].notified) :
          LET sub == subscribers[eqLog[n].notified[k]]
          IN  sub.kind = "ReadyToHandleRandomnessTask"
                 => /\ eqLog[n].event.tag = "ReadyToHandleRandomnessTask"
                    /\ eqLog[n].event.chain_id = sub.chain_id
                    /\ handler_for(sub.chain_id, << >>).chain_id =
                          eqLog[n].event.chain_id

\* A ReadyToHandleRandomnessTask event of a chain other than the main chain was
\* delivered to the subscriber of that chain and to nobody else, while a
\* ReadyToHandleRandomnessTask subscriber of another chain was registered, and
\* a NewBlock event of the other chain reached no subscriber.
C21_Witness ==
    /\ Len(eqLog) = 2
    /\ eqLog[1].event.tag = "ReadyToHandleRandomnessTask"
    /\ eqLog[1].event.chain_id # 0
    /\ Len(eqLog[1].notified) = 1
    /\ subscribers[eqLog[1].notified[1]] =
          [kind |-> "ReadyToHandleRandomnessTask", chain_id |-> eqLog[1].event.chain_id]
    /\ eqLog[2].event.tag = "NewBlock"
    /\ eqLog[2].notified = << >>
    /\ subs[<<"ReadyToHandleRandomnessTask", eqLog[2].event.chain_id>>] # << >>
    /\ eqLog[2].event.chain_id # eqLog[1].event.chain_id

\* ---- properties of the dynamic scheduler (checked under SpecSched)

\* C8: FIFO drain: the entry wait_task takes is the oldest entry of the queue
\* (no entry that was added later and is in the queue with it is taken first).
C8_FifoDrain ==
    [][ Len(taken') > Len(taken) =>
          \A n \in 1 .. Len(dynamic_tasks) :
             taken'[Len(taken')] <= dynamic_tasks[n].id ]_vars

\* C15: wait_task never returns: it is always at one of the positions of its
\* loop; with an empty queue it sleeps and checks again, and after the awaited
\* task has completed, normally or with an error, it checks the queue again.
C15_WaitTaskNeverReturns ==
    /\ [](waitPc \in {"check", "pop", "await", "sleep"})
    /\ [][(waitPc = "check" /\ waitPc' # "check")
             => waitPc' = IF dynamic_tasks = << >> THEN "sleep" ELSE "pop"]_vars
    /\ [][(waitPc \in {"sleep", "await"} /\ waitPc' # waitPc) => waitPc' = "check"]_vars

\* The task awaited last was aborted by its watchdog (its completion channel
\* reported an error); the loop checked the queue again and now sleeps.
C15_Witness ==
    /\ taken # << >>
    /\ taskState[taken[Len(taken)]].run = "aborted"
    /\ waitPc = "sleep"
    /\ dynamic_tasks = << >>

\* C22: with one wait_task loop and concurrent add_task calls, the pop after
\* a non-empty check finds an entry (the loop never panics on an empty queue);
\* while the loop awaits a task's completion it does not hold the scheduler
\* lock, so add_task can take it; and a watchdog the loop aborted belongs to a
\* task whose completion signal had resolved.
C22_PopSafeNoLockAcrossAwait ==
    /\ waitPc # "panicked"
    /\ waitPc = "pop" => dynamic_tasks # << >>
    /\ waitPc = "await" => tsLock = "free"
    /\ (waitPc = "await" /\ added < MaxTasks)
          => ENABLED (\E with_timer \in BOOLEAN : add_task(with_timer))
    /\ \A t \in TaskIds :
          taskState[t].dog = "aborted" => taskState[t].run \in {"done", "aborted"}

\* The loop awaits a task that is still running, an entry added after the pop
\* is in the queue, and the watchdog of a task taken earlier was aborted after
\* the task had completed.
C22_Witness ==
    /\ waitPc = "await"
    /\ taskState[waitCur.id].run = "running"
    /\ \E n \in 1 .. Len(dynamic_tasks) : dynamic_tasks[n].id > waitCur.id
    /\ \E t \in TaskIds : taskState[t].dog = "aborted" /\ taskState[t].run = "done"

\* ---- properties of the signing handler (checked under SpecSign)

\* C9: at most 3 attempts of commit_partial_signature are made per task and
\* committer.
C9_AtMostThreeAttempts == \A c \in Members : hCalls[c] <= 3

\* C12: recording a partial for a member that already has one under the task
\* index succeeds and leaves the entry's partials (and their number) as they
\* were, for a peer's resubmission and for the handler's own partial when it
\* runs again for the task.
C12_DuplicatePartialIsNoOp ==
    /\ [](\A i \in Idx : \A m \in sigCache[i].partials :
             add_partial_signature(sigCache, i, m) = [cache |-> sigCache, result |-> "Ok"])
    /\ [][(hPc = "add_partial" /\ hPc' # "add_partial"
              /\ Me \in sigCache[Head(hTasks)].partials)
            => /\ sigCache' = sigCache
               /\ hPc' = "send"
               /\ hAddLast' = "dup"]_vars

\* The handler ran again for a task and recorded its partial a second time:
\* the entry still holds the one partial of the local node.
C12_Witness ==
    /\ hAddLast = "dup"
    /\ hPc = "send"
    /\ hResult = "Ok"
    /\ sigCache[Head(hTasks)].partials = {Me}

C14_RemainingTasksStillHandled ==
    [][(hPc \in {"sign", "add", "add_partial"} /\ hPc' = "done" /\ hResult' = "Err")
          => Tail(hTasks') = << >>]_vars

\* C17: the handler invokes the creation of an entry only for an index that
\* has no entry at the moment of the creation, so no entry with its partials
\* is replaced by a fresh one.
C17_CreatesEntryOnlyIfAbsent ==
    [][(hPc = "add" /\ hPc' # "add")
          => /\ ~sigCache[Head(hTasks)].present
             /\ sigCache[Head(hTasks)].partials \subseteq sigCache'[Head(hTasks)].partials]_vars

\* The elements of a sequence.
SeqRange(q) == { q[n] : n \in 1 .. Len(q) }

\* C18: the handler changes the signature cache only for a task for which
\* is_committer returned true; committer or not, it calls every committer
\* client for each task; and when it is committer the entry of the task
\* exists and holds the node's own partial at every commit_partial_signature
\* call it makes for the task, the first included.
C18_CacheTouchedOnlyByCommitter ==
    /\ [][(signVars' # signVars /\ sigCache' # sigCache) => hIsCommitter = OkTrue]_vars
    /\ [](hPc = "send" =>
             \A c \in SeqRange(hCommitters) : c \in SeqRange(hTodo) \/ hCalls[c] >= 1)
    /\ [][(hPc = "send" /\ hCalls' # hCalls /\ hIsCommitter = OkTrue)
            => /\ sigCache[Head(hTasks)].present
               /\ Me \in sigCache[Head(hTasks)].partials]_vars

\* A node that is not committer has called every committer client for a task
\* and the signature cache is still empty.
C18_Witness ==
    /\ hIsCommitter = OkFalse
    /\ hPc = "send"
    /\ hCommitters # << >>
    /\ hTodo = << >>
    /\ \A c \in SeqRange(hCommitters) : hCalls[c] >= 1
    /\ \A i \in Idx : sigCache[i] = NoEntry

\* C19: a commit_partial_signature attempt, failed or not, leaves the
\* signature cache and the handler's result as they were; when the retry for
\* a committer gives up the handler goes on to the next committer and then to
\* the next task; and a handler that ends after its last delivery returns Ok.
C19_DeliveryFailureHasNoFurtherEffect ==
    /\ [][(hPc = "send" /\ hCalls' # hCalls)
            => /\ sigCache' = sigCache
               /\ hPc' = "send"
               /\ hResult' = hResult
               /\ hTasks' = hTasks]_vars
    /\ [][(hGaveUp' /\ ~hGaveUp) => hTodo' = Tail(hTodo)]_vars
    /\ [][(hPc = "send" /\ hPc' # "send")
            => IF Tail(hTasks) = << >> THEN hPc' = "done" /\ hResult' = "Ok"
               ELSE hPc' = "sign" /\ hTasks' = Tail(hTasks)]_vars

\* The delivery to a committer gave up for an earlier task of the event; the
\* last task was delivered at the first attempt and the handler returned Ok.
C19_Witness ==
    /\ hGaveUp
    /\ hPc = "done"
    /\ hResult = "Ok"
    /\ hCommitters # << >>
    /\ \A c \in SeqRange(hCommitters) : hCalls[c] = 1

\* ---- properties of the committer client (checked under SpecClient)

\* C23: the request of every commit_partial_signature call carries the
\* signature_index and the chain_id the call was made with, so calls made for
\* two distinct task indices never carry the same signature_index.
C23_RequestIdentifiesTask ==
    /\ \A n \in 1 .. Len(requests) :
          /\ u32_as_usize(requests[n].request.signature_index) =
                requests[n].signature_index
          /\ u32_as_usize(requests[n].request.chain_id) = requests[n].chain_id
    /\ \A n, m \in 1 .. Len(requests) :
          requests[n].signature_index # requests[m].signature_index
             => requests[n].request.signature_index #
                   requests[m].request.signature_index

\* ---- properties of the subscriber (checked under SpecNotify)

\* C20: a notify call adds exactly one task to the dynamic scheduler, whose
\* handler carries exactly the tasks of the event, and returns Ok while the
\* handler is still running; what the handler returns later changes nothing
\* of what notify returned, and the task completes normally.
C20_NotifySpawnsOneHandler ==
    /\ [][notifyLast' # notifyLast =>
            /\ added' = added + 1
            /\ dynamic_tasks' = Append(dynamic_tasks, [id |-> added', monitor |-> FALSE])
            /\ notifyLast'.id = added'
            /\ notifyLast'.result = "Ok"
            /\ spawned' = [spawned EXCEPT ![added'] = spawned'[added']]
            /\ spawned'[added'] =
                  [chain_id |-> SubscriberChainId, tasks |-> notifyLast'.tasks]
            /\ taskState'[added'].run = "running"
            /\ handlerResult'[added'] = "none"]_vars
    /\ [][handlerResult' # handlerResult =>
            /\ notifyLast' = notifyLast
            /\ \A t \in TaskIds :
                  handlerResult'[t] # handlerResult[t] => taskState'[t].run = "done"]_vars

\* notify returned Ok for an event with two tasks and its handler later
\* returned an error.
C20_Witness ==
    /\ notifyLast.result = "Ok"
    /\ Len(notifyLast.tasks) = 2
    /\ Len(dynamic_tasks) = notifyLast.id
    /\ handlerResult[notifyLast.id] = Err

\* ---- properties of the context (checked under SpecCtx)

\* C11: add_adapter_chain with a registered id returns RepeatedChainId and
\* leaves the map unchanged, with a new id it inserts the chain and returns
\* Ok; so every id maps to the first chain registered under it.
C11_FirstRegisteredChainIsKept ==
    /\ [](adapter_chains = firstAdded)
    /\ [][ addLast' # addLast =>
             IF adapter_chains[addLast'.id] # 0
             THEN /\ addLast'.result = "RepeatedChainId"
                  /\ adapter_chains' = adapter_chains
             ELSE /\ addLast'.result = "Ok"
                  /\ adapter_chains' =
                        [adapter_chains EXCEPT ![addLast'.id] = addLast'.obj] ]_vars

\* A second chain with a registered id was refused and the first one kept.
C11_Witness ==
    /\ addLast.result = "RepeatedChainId"
    /\ adapter_chains[addLast.id] # 0
    /\ adapter_chains[addLast.id] # addLast.obj

C24_ChainIdsPairwiseDistinct ==
    /\ \A a, b \in DeployChains(adapter_chains) : a # b => a.id # b.id
    /\ lastPublish.receivers \subseteq {lastPublish.chain}

====
